---- MODULE Spec2Model ----
(***************************************************************************)
(* Model of deeper_hub::WebSocketClient (src/client/src/websocket_client.  *)
(* cpp), the websocketpp based client, together with the request path of   *)
(* DatabaseOperations::send_database_operation.                            *)
(*                                                                         *)
(* Threads call the public operations.  The websocketpp handlers (on_open, *)
(* on_message, on_close, on_fail) run on the threads that are inside       *)
(* endpoint::run(), which connect() calls; run() returns only when the     *)
(* io_service has no work left, i.e. when every connection has terminated. *)
(***************************************************************************)
EXTENDS Integers, Sequences, FiniteSets, TLC

\* ---------------------------------------------------------------- bounds
MaxConns == 2
MaxTicks == 2
MaxHandles == 8

\* ------------------------------------------------------- program values
\* m is the thread that runs main(); a and b are further threads that share
\* the client
Threads == {"m", "a", "b"}
\* refs produced by generate_request_id (random UUIDs; two of them)
Refs == {"u1", "u2"}
\* ref produced by generate_uuid for heartbeat envelopes
HbRef == "hb"
\* reserved ref of the join envelope
JoinRef == "1"
Null == [of |-> "null"]
NoEnv == [event |-> "none", ref |-> "", conn |-> 0]
\* no send_database_operation call made, no data field read
NoCall == [made |-> FALSE]
NoRead == [made |-> FALSE]
\* return values of connect()
RetTrue == [of |-> "true"]
RetFalse == [of |-> "false"]
\* callbacks a caller can register with set_message_callback
MsgCallbacks == {"msg1", "msg2"}

\* payload shapes of an inbound phx_reply (what on_message distinguishes)
Shapes == {"resp_db", "resp_status", "resp_plain", "status", "plain", "nonobj"}

ConnIds == 1..MaxConns

\* the two builds of the WinHTTP client (src/deeper_client and
\* src/deeper_hub/deeper_client)
Builds == {"deeper_client", "deeper_hub"}

VARIABLES
    url_ok,             \* url_ is a URI get_connection accepts
    connected,          \* connected_
    authenticated,      \* authenticated_
    response_received,  \* response_received_
    last_response,      \* last_response_
    takers,             \* wait_for_response calls that returned the stored
                        \* last_response_ (0..2)
    message_callback,   \* message_callback_: "" or the registered callback
    connection_callback,\* connection_callback_ is set
    heartbeat_running,  \* heartbeat_running_
    hbThread,           \* heartbeat_thread_: "none", or where the thread
                        \* is: "check", "sleep", "due", "exited"
    conn,               \* library state of each connection created
    nconn,              \* number of connections created; connection_ = nconn
    ioStopped,          \* the io_service ran out of work: run() returns
                        \* at once from now on
    joinSent,           \* joinSent[c]: join envelopes written on c (0..2)
    joinAck,            \* joinAck[c]: the server's answer to the join on c
    cbFalse,            \* cbFalse[c]: connection_callback_(false) calls for c
    wrote,              \* envelope written to the transport by the last step
    pendingSrv,         \* pendingSrv[c]: refs received on c and not answered
    pc,                 \* position of each calling thread
    op,                 \* the operation a thread called last
    ref,                \* ref of the request a thread sent last
    ret,                \* value the last operation returned
    exit,               \* return statement the last operation left by
    myConn,             \* connection created by the thread's connect()
    stale,              \* stale[t]: ref of t's previous request when that
                        \* request timed out and the server has yet to answer
    cbEvent,            \* callbacks invoked by the last step
    notified,           \* response_cv_.notify_one() was called by the last step
    idleTicks,          \* whole heartbeat intervals elapsed without traffic
    terminated,         \* std::terminate was called
    build,              \* the WinHTTP client constructed: "none", or the
                        \* build it comes from
    m_connected,        \* WinHTTP client: m_connected
    m_hSession,         \* m_hSession: 0 is NULL, otherwise a handle
    m_hConnection,      \* m_hConnection
    m_hRequest,         \* m_hRequest
    m_hWebSocket,       \* m_hWebSocket
    live,               \* handles WinHTTP has handed out and not yet closed
    nextH,              \* number of handles WinHTTP has handed out
    attempt,            \* handles opened by the last connect() call
    closedTwice,        \* WinHttpCloseHandle was called on a closed handle
    wSent,              \* frames the last WinHTTP client step sent
    wClosed,            \* handles the last WinHTTP client step closed
    wAttempts,          \* receive attempts the last step made
    wSendAttempts,      \* send attempts the last step made
    m_authenticated,    \* CppClientAdapter: m_authenticated
    authConn,           \* the WebSocket handle authenticate() last
                        \* succeeded on (0: none)
    wRet,               \* operation and result of the last WinHTTP client call
    dbCall,             \* arguments of the last send_database_operation
                        \* and the message it built
    dbRead              \* the data field an operation last read from a
                        \* response, and what it made of it

\* state of the WinHTTP client
winVars == <<build, m_connected, m_hSession, m_hConnection, m_hRequest,
             m_hWebSocket, live, nextH, attempt, closedTwice, wSent, wClosed,
             wAttempts, wSendAttempts, m_authenticated, authConn, wRet>>

\* state of CppClientAdapter
adVars == <<m_authenticated, authConn>>

\* state of the websocketpp client
wsVars == <<url_ok, connected, authenticated, response_received,
          last_response, takers,
          message_callback, connection_callback, heartbeat_running, hbThread,
          conn, nconn, ioStopped, joinSent, joinAck, cbFalse, wrote,
          pendingSrv, pc, op, ref, ret, exit, myConn, stale, cbEvent,
          notified, idleTicks, terminated>>

\* state of the harness that applies the DatabaseOperations codec
codecVars == <<dbCall, dbRead>>

vars == <<wsVars, winVars, codecVars>>

Ready == connected /\ authenticated

\* some thread is inside endpoint::run(): handlers can be dispatched
IoRunning == \E t \in Threads : pc[t] = "run"

\* the io_service has outstanding work: a connection that has not terminated
HasWork == \E c \in ConnIds : conn[c] \in {"connecting", "open", "closing"}

Init ==
    /\ url_ok \in BOOLEAN
    /\ connected = FALSE
    /\ authenticated = FALSE
    /\ response_received = FALSE
    /\ last_response = Null
    /\ takers = 0
    /\ message_callback = ""
    /\ connection_callback = FALSE
    /\ heartbeat_running = FALSE
    /\ hbThread = "none"
    /\ conn = [c \in ConnIds |-> "none"]
    /\ nconn = 0
    /\ ioStopped = FALSE
    /\ joinSent = [c \in ConnIds |-> 0]
    /\ joinAck = [c \in ConnIds |-> "none"]
    /\ cbFalse = [c \in ConnIds |-> 0]
    /\ wrote = NoEnv
    /\ pendingSrv = [c \in ConnIds |-> {}]
    /\ pc = [t \in Threads |-> "idle"]
    /\ op = [t \in Threads |-> "none"]
    /\ ref = [t \in Threads |-> ""]
    /\ ret = [t \in Threads |-> Null]
    /\ exit = [t \in Threads |-> "none"]
    /\ myConn = [t \in Threads |-> 0]
    /\ stale = [t \in Threads |-> ""]
    /\ cbEvent = {}
    /\ notified = FALSE
    /\ idleTicks = 0
    /\ terminated = FALSE
    /\ build = "none"
    /\ m_connected = FALSE
    /\ m_hSession = 0
    /\ m_hConnection = 0
    /\ m_hRequest = 0
    /\ m_hWebSocket = 0
    /\ live = {}
    /\ nextH = 0
    /\ attempt = {}
    /\ closedTwice = FALSE
    /\ wSent = {}
    /\ wClosed = {}
    /\ wAttempts = 0
    /\ wSendAttempts = 0
    /\ m_authenticated = FALSE
    /\ authConn = 0
    /\ wRet = [op |-> "none", val |-> FALSE]
    /\ dbCall = NoCall
    /\ dbRead = NoRead

\* ------------------------------------------------------------- helpers
Min(a, b) == IF a < b THEN a ELSE b

\* atomics and registry
flagVars == <<url_ok, connected, authenticated>>
respVars == <<response_received, last_response, takers>>
cbVars == <<message_callback, connection_callback>>
hbVars == <<heartbeat_running, hbThread>>
connVars == <<conn, nconn, ioStopped, joinSent, joinAck, cbFalse>>

callVars == <<pc, op, ref, ret, exit, myConn, stale>>

\* nothing observable is emitted by the step
Quiet == cbEvent' = {} /\ notified' = FALSE

\* nothing is written to the transport by the step
NotWritten == wrote' = NoEnv /\ UNCHANGED pendingSrv

\* endpoint::send(connection_, ...) succeeds iff the connection behind the
\* handle is open in the library; otherwise it reports an error code
LibCanSend(cs, n) == n > 0 /\ cs[n] = "open"

\* the envelope [event, ref] is written on connection_ (= nconn)
Written(event, r) ==
    /\ wrote' = [event |-> event, ref |-> r, conn |-> nconn]
    /\ pendingSrv' = IF event = "phx_join" THEN pendingSrv
                     ELSE [pendingSrv EXCEPT ![nconn] = @ \cup {r}]

Return(t, o, v, e) ==
    /\ pc' = [pc EXCEPT ![t] = "idle"]
    /\ op' = [op EXCEPT ![t] = o]
    /\ ret' = [ret EXCEPT ![t] = v]
    /\ exit' = [exit EXCEPT ![t] = e]

\* the operations of DatabaseOperations
DbKinds == {"create", "read", "update", "find"}

\* what an operation returns when it has no usable response: create_* return
\* {false, message}, get_user nullopt, update_* false, find_* and the joins
\* an empty vector
Failure(kind) ==
    IF kind = "create" THEN [ok |-> FALSE, text |-> "Falha ao criar"]
    ELSE IF kind = "read" THEN [ok |-> FALSE, text |-> "nullopt"]
    ELSE IF kind = "update" THEN [ok |-> FALSE, text |-> "false"]
    ELSE [ok |-> FALSE, text |-> "empty"]

\* the result of an operation for the response send_database_operation
\* handed back: json() contains no "status", so the failure value; otherwise
\* the result is read from that response
Outcome(kind, resp) ==
    IF resp = Null THEN Failure(kind) ELSE [ok |-> TRUE, text |-> resp.of]

\* ---------------------------------------------------------- disconnect
\* body of WebSocketClient::disconnect()
DisconnectEffect ==
    IF ~connected
    THEN UNCHANGED <<connected, authenticated, conn>>
    ELSE /\ conn' = IF LibCanSend(conn, nconn)
                    THEN [conn EXCEPT ![nconn] = "closing"]
                    ELSE conn
         /\ connected' = FALSE
         /\ authenticated' = FALSE

Disconnect(t) ==
    /\ ~terminated
    /\ pc[t] = "idle"
    /\ DisconnectEffect
    /\ Return(t, "disconnect", Null, IF connected THEN "closed" ELSE "noop")
    /\ idleTicks' = 0
    /\ Quiet
    /\ NotWritten
    /\ UNCHANGED <<codecVars, winVars, url_ok, respVars, cbVars, hbVars, nconn, ioStopped,
                   joinSent, joinAck, cbFalse, ref, myConn, stale, terminated>>

\* ------------------------------------------------------------- connect
\* connect() up to the call of endpoint::run()
ConnectCall(t) ==
    /\ ~terminated
    /\ pc[t] = "idle"
    /\ \/ /\ connected
          /\ Return(t, "connect", RetTrue, "already")
          /\ UNCHANGED <<conn, nconn, myConn, stale>>
       \/ /\ ~connected
          /\ ~url_ok
          /\ Return(t, "connect", RetFalse, "uri_error")
          /\ UNCHANGED <<conn, nconn, myConn, stale>>
       \/ /\ ~connected
          /\ url_ok
          /\ nconn < MaxConns
          /\ nconn' = nconn + 1
          /\ conn' = [conn EXCEPT ![nconn + 1] = "connecting"]
          /\ myConn' = [myConn EXCEPT ![t] = nconn + 1]
          /\ UNCHANGED stale
          /\ pc' = [pc EXCEPT ![t] = "run"]
          /\ op' = [op EXCEPT ![t] = "connect"]
          /\ ret' = [ret EXCEPT ![t] = Null]
          /\ exit' = [exit EXCEPT ![t] = "pending"]
    /\ Quiet
    /\ NotWritten
    /\ UNCHANGED <<codecVars, winVars, flagVars, respVars, cbVars, hbVars, ioStopped,
                   joinSent,
                   joinAck, cbFalse, ref, idleTicks, terminated>>

\* endpoint::run() returns: the io_service has run out of work (and stays
\* stopped, nothing in the client resets it)
RunReturns(t) ==
    /\ ~terminated
    /\ pc[t] = "run"
    /\ ioStopped \/ ~HasWork
    /\ ioStopped' = TRUE
    /\ pc' = [pc EXCEPT ![t] = "waitConn"]
    /\ Quiet
    /\ NotWritten
    /\ UNCHANGED <<codecVars, winVars, flagVars, respVars, cbVars, hbVars, conn, nconn,
                   joinSent,
                   joinAck, cbFalse, op, ref, ret, exit, myConn, stale,
                   idleTicks, terminated>>

\* connect() after run() has returned: the two polling loops (connected_,
\* then authenticated_) and the checks that follow them
ConnectPoll(t) ==
    /\ ~terminated
    /\ pc[t] \in {"waitConn", "waitAuth"}
    /\ IF pc[t] = "waitConn"
       THEN /\ IF connected
               THEN /\ pc' = [pc EXCEPT ![t] = "waitAuth"]
                    /\ UNCHANGED <<op, ret, exit>>
               ELSE Return(t, "connect", RetFalse, "connect_timeout")
            /\ UNCHANGED <<connected, authenticated, conn, idleTicks>>
       ELSE IF authenticated
            THEN /\ Return(t, "connect", RetTrue, "ok")
                 /\ UNCHANGED <<connected, authenticated, conn, idleTicks>>
            ELSE /\ DisconnectEffect
                 /\ Return(t, "connect", RetFalse, "auth_timeout")
                 /\ idleTicks' = 0
    /\ Quiet
    /\ NotWritten
    /\ UNCHANGED <<codecVars, winVars, url_ok, respVars, cbVars, hbVars, nconn, ioStopped,
                   joinSent, joinAck, cbFalse, ref, myConn, stale, terminated>>

\* ------------------------------------------------------ inbound frames
Frame(k, r, sh) == [k |-> k, ref |-> r, shape |-> sh]

\* frames the server can put on connection c: unsolicited ones, the answer
\* to a join it received, and one answer per request it received
ServerFrames(c) ==
    {Frame("malformed", "", ""), Frame("badevent", "", ""),
     Frame("heartbeat", "", ""), Frame("message", "", ""),
     Frame("other", "", "")}
    \cup (IF joinSent[c] > 0 /\ joinAck[c] = "none"
          THEN {Frame("phx_reply", JoinRef, "ok"),
                Frame("phx_reply", JoinRef, "error")}
          ELSE {})
    \cup {Frame("phx_reply", r, sh) : r \in pendingSrv[c], sh \in Shapes}
    \cup {Frame("old_db", r, "old_db") : r \in pendingSrv[c]}

\* variant: a reply with ref "1" authenticates whatever its status
RouteDecoded_StatusIgnored(f) ==
    IF f.k = "phx_reply" /\ f.ref = JoinRef THEN "auth_ok"
    ELSE IF f.k = "phx_reply" /\ f.shape \in {"resp_db", "resp_status", "status"}
    THEN "deliver"
    ELSE IF f.k = "old_db" THEN "deliver"
    ELSE IF f.k = "heartbeat" THEN "heartbeat"
    ELSE IF f.k = "badevent" THEN "discard"
    ELSE "ignore"

\* the branch of on_message a frame that json::parse accepted takes
RouteDecoded(f) ==
    IF f.k \notin {"old_db", "other"}              \* data.contains("event")
    THEN IF f.k = "badevent" THEN "discard"        \* event is not a string
         ELSE IF f.k = "phx_reply" /\ f.ref = JoinRef
         THEN IF f.shape = "ok" THEN "auth_ok" ELSE "auth_rejected"
         ELSE IF f.k = "heartbeat" THEN "heartbeat"
         ELSE IF f.k = "phx_reply"
         THEN IF f.shape \in {"resp_db", "resp_status", "status"}
              THEN "deliver" ELSE "ignore"
         ELSE "ignore"
    ELSE IF f.k = "old_db" THEN "deliver"
    ELSE "ignore"

\* variant: a frame that does not parse is handed on as a response
Route_ParseErrorDelivered(f) ==
    IF f.k = "malformed" THEN "deliver" ELSE RouteDecoded(f)

\* the branch of on_message a frame takes; json::parse throws on a frame
\* that is not JSON and the handler's catch discards it
Route(f) ==
    IF f.k = "malformed" THEN "discard" ELSE RouteDecoded(f)

\* what on_message stores in last_response_ for a delivered frame
Delivered(f) == [of |-> f.ref]

\* callbacks invoked when connection_callback_(b) / message_callback_ is called
ConnCb(name) == IF connection_callback THEN {name} ELSE {}
MsgCb == IF message_callback = "" THEN {} ELSE {message_callback}

\* handlers are dispatched by a thread inside run()
CanDispatch == ~terminated /\ IoRunning /\ ~ioStopped

\* join_channel(): the join envelope goes to connection_, the newest handle
JoinChannel(cs) ==
    IF LibCanSend(cs, nconn)
    THEN /\ wrote' = [event |-> "phx_join", ref |-> JoinRef, conn |-> nconn]
         /\ joinSent' = [joinSent EXCEPT ![nconn] = Min(@ + 1, 2)]
    ELSE /\ wrote' = NoEnv
         /\ UNCHANGED joinSent

OnOpen(c) ==
    /\ CanDispatch
    /\ conn[c] = "connecting"
    /\ conn' = [conn EXCEPT ![c] = "open"]
    /\ connected' = TRUE
    /\ cbEvent' = ConnCb("conn_true")
    /\ notified' = FALSE
    /\ JoinChannel(conn')
    /\ idleTicks' = 0
    /\ UNCHANGED <<codecVars, winVars, url_ok, authenticated, respVars, cbVars, hbVars,
                   nconn,
                   ioStopped, joinAck, cbFalse, pendingSrv, callVars,
                   terminated>>

\* variant: the handler resets the flags and notifies nobody
LostEffect_Silent(c) ==
    /\ connected' = FALSE
    /\ authenticated' = FALSE
    /\ cbEvent' = {}
    /\ notified' = FALSE
    /\ idleTicks' = 0
    /\ UNCHANGED <<codecVars, winVars, url_ok, respVars, cbVars, hbVars, nconn, ioStopped,
                   joinSent, joinAck, cbFalse, callVars, terminated>>
    /\ NotWritten

\* common body of on_close and on_fail
LostEffect(c) ==
    /\ connected' = FALSE
    /\ authenticated' = FALSE
    /\ cbEvent' = ConnCb("conn_false")
    /\ cbFalse' = [cbFalse EXCEPT ![c] =
                      IF connection_callback THEN Min(@ + 1, 2) ELSE @]
    /\ notified' = FALSE
    /\ idleTicks' = 0
    /\ NotWritten
    /\ UNCHANGED <<codecVars, winVars, url_ok, respVars, cbVars, hbVars, nconn, ioStopped,
                   joinSent, joinAck, callVars, terminated>>

\* the close handler: an opened connection terminated (closed by the server,
\* by the transport, or after the client's close frame)
OnClose(c) ==
    /\ CanDispatch
    /\ conn[c] \in {"open", "closing"}
    /\ conn' = [conn EXCEPT ![c] = "closed"]
    /\ LostEffect(c)

\* the fail handler: the connection could not be opened
OnFail(c) ==
    /\ CanDispatch
    /\ conn[c] = "connecting"
    /\ conn' = [conn EXCEPT ![c] = "failed"]
    /\ LostEffect(c)

OnMessage(c, f) ==
    /\ CanDispatch
    /\ conn[c] = "open"
    /\ f \in ServerFrames(c)
    /\ joinAck' = IF f.k = "phx_reply" /\ f.ref = JoinRef
                  THEN [joinAck EXCEPT ![c] = f.shape] ELSE joinAck
    /\ pendingSrv' = IF f.k \in {"phx_reply", "old_db"} /\ f.ref # JoinRef
                     THEN [pendingSrv EXCEPT ![c] = @ \ {f.ref}]
                     ELSE pendingSrv
    /\ authenticated' = IF Route(f) = "auth_ok" THEN TRUE ELSE authenticated
    /\ IF Route(f) = "deliver"
       THEN /\ last_response' = Delivered(f)
            /\ response_received' = TRUE
            /\ takers' = 0
            /\ notified' = TRUE
            /\ cbEvent' = MsgCb
       ELSE /\ UNCHANGED respVars
            /\ Quiet
    /\ idleTicks' = 0
    /\ wrote' = NoEnv
    /\ UNCHANGED <<codecVars, winVars, url_ok, connected, cbVars, hbVars, conn, nconn,
                   ioStopped,
                   joinSent, cbFalse, callVars, terminated>>

\* ------------------------------------------------------------ requests
\* variant: the guard tests connected_ only
SendOk_ConnectedOnly == connected /\ LibCanSend(conn, nconn)

\* send_message(m) passes its guard and the library accepts the frame
SendOk == connected /\ authenticated /\ LibCanSend(conn, nconn)

\* send_message(m): the guard and the write
SendMessage(event, r) == IF SendOk THEN Written(event, r) ELSE NotWritten

\* variant: a failed send hands back whatever response is stored
DbSend_ReturnsStored(t, r) ==
    /\ ~terminated
    /\ pc[t] = "idle"
    /\ SendMessage("message", r)
    /\ IF SendOk
       THEN /\ pc' = [pc EXCEPT ![t] = "sent"]
            /\ op' = [op EXCEPT ![t] = "db"]
            /\ ret' = [ret EXCEPT ![t] = Null]
            /\ exit' = [exit EXCEPT ![t] = "pending"]
            /\ idleTicks' = 0
       ELSE /\ Return(t, "db", last_response, "send_failed")
            /\ UNCHANGED idleTicks
    /\ ref' = [ref EXCEPT ![t] = r]
    /\ stale' = [stale EXCEPT ![t] =
                   IF SendOk /\ op[t] = "db" /\ exit[t] = "timeout"
                        /\ ref[t] # r /\ ref[t] \in pendingSrv[nconn]
                   THEN ref[t] ELSE ""]
    /\ Quiet
    /\ UNCHANGED <<codecVars, winVars, flagVars, respVars, cbVars, hbVars, connVars,
                   myConn,
                   terminated>>

\* send_database_operation up to the return of send_message
DbSend(t, r) ==
    /\ ~terminated
    /\ pc[t] = "idle"
    /\ SendMessage("message", r)
    /\ IF SendOk
       THEN /\ pc' = [pc EXCEPT ![t] = "sent"]
            /\ op' = [op EXCEPT ![t] = "db"]
            /\ ret' = [ret EXCEPT ![t] = Null]
            /\ exit' = [exit EXCEPT ![t] = "pending"]
            /\ idleTicks' = 0
       ELSE /\ Return(t, "db", Null, "send_failed")
            /\ UNCHANGED idleTicks
    /\ ref' = [ref EXCEPT ![t] = r]
    /\ stale' = [stale EXCEPT ![t] =
                   IF SendOk /\ op[t] = "db" /\ exit[t] = "timeout"
                        /\ ref[t] # r /\ ref[t] \in pendingSrv[nconn]
                   THEN ref[t] ELSE ""]
    /\ Quiet
    /\ UNCHANGED <<codecVars, winVars, flagVars, respVars, cbVars, hbVars, connVars,
                   myConn,
                   terminated>>

\* main() after connect() has returned true: DatabaseOperations db_ops(
\* ws_client).  The constructor throws std::runtime_error when the client is
\* not connected and authenticated, and nothing in main() catches it
DbConstruct(t) ==
    /\ ~terminated
    /\ pc[t] = "idle"
    /\ op[t] = "connect"
    /\ ret[t] = RetTrue
    /\ terminated' = ~Ready
    /\ Return(t, "construct", Null, IF Ready THEN "constructed" ELSE "threw")
    /\ Quiet
    /\ NotWritten
    /\ UNCHANGED <<codecVars, winVars, flagVars, respVars, cbVars, hbVars, connVars, ref,
                   myConn, stale, idleTicks>>

\* wait_for_response: lock, reset, start waiting
WaitStart(t) ==
    /\ ~terminated
    /\ pc[t] = "sent"
    /\ response_received' = FALSE
    /\ last_response' = Null
    /\ takers' = 0
    /\ pc' = [pc EXCEPT ![t] = "waiting"]
    /\ Quiet
    /\ NotWritten
    /\ UNCHANGED <<codecVars, winVars, flagVars, cbVars, hbVars, connVars, op, ref, ret,
                   exit, myConn, stale, idleTicks, terminated>>

\* wait_for ends with the predicate true (notified, spurious or at timeout)
WaitReturn(t) ==
    /\ ~terminated
    /\ pc[t] = "waiting"
    /\ response_received
    /\ Return(t, "db", last_response, "reply")
    /\ takers' = Min(takers + 1, 2)
    /\ Quiet
    /\ NotWritten
    /\ UNCHANGED <<codecVars, winVars, flagVars, response_received, last_response,
                   cbVars, hbVars,
                   connVars, ref,
                   myConn, stale, idleTicks, terminated>>

\* variant: the wait has no timeout
WaitTimeout_NoTimeout(t) ==
    /\ pc[t] = "waiting"
    /\ FALSE
    /\ UNCHANGED vars

\* wait_for ends by timeout with the predicate false
WaitTimeout(t) ==
    /\ ~terminated
    /\ pc[t] = "waiting"
    /\ ~response_received
    /\ Return(t, "db", Null, "timeout")
    /\ Quiet
    /\ NotWritten
    /\ UNCHANGED <<codecVars, winVars, flagVars, respVars, cbVars, hbVars, connVars, ref,
                   myConn, stale, idleTicks, terminated>>

\* ----------------------------------------------------------- callbacks
SetMessageCallback(t, cb) ==
    /\ ~terminated
    /\ pc[t] = "idle"
    /\ message_callback' = cb
    /\ Quiet
    /\ NotWritten
    /\ UNCHANGED <<codecVars, winVars, flagVars, respVars, connection_callback, hbVars,
                   connVars,
                   callVars, idleTicks, terminated>>

SetConnectionCallback(t) ==
    /\ ~terminated
    /\ pc[t] = "idle"
    /\ connection_callback' = TRUE
    /\ Quiet
    /\ NotWritten
    /\ UNCHANGED <<codecVars, winVars, flagVars, respVars, message_callback, hbVars,
                   connVars,
                   callVars, idleTicks, terminated>>

\* ----------------------------------------------------------- heartbeat
\* heartbeat_thread_ holds a thread that has not been joined
Joinable == hbThread # "none"

\* second half of start_heartbeat: the flag and the new thread; assigning to
\* a joinable std::thread calls std::terminate
LaunchHeartbeat ==
    /\ heartbeat_running' = TRUE
    /\ IF Joinable
       THEN terminated' = TRUE /\ UNCHANGED hbThread
       ELSE hbThread' = "check" /\ UNCHANGED terminated

StartHeartbeat(t) ==
    /\ ~terminated
    /\ pc[t] = "idle"
    /\ IF heartbeat_running /\ Joinable
       THEN /\ heartbeat_running' = FALSE
            /\ pc' = [pc EXCEPT ![t] = "join_start"]
            /\ op' = [op EXCEPT ![t] = "start_heartbeat"]
            /\ UNCHANGED <<hbThread, terminated, ret, exit>>
       ELSE /\ LaunchHeartbeat
            /\ Return(t, "start_heartbeat", Null, "started")
    /\ Quiet
    /\ NotWritten
    /\ UNCHANGED <<codecVars, winVars, flagVars, respVars, cbVars, connVars, ref, myConn,
                   stale,
                   idleTicks>>

\* variant: stop_heartbeat clears the flag and returns without joining
StopHeartbeat_NoJoin(t) ==
    /\ ~terminated
    /\ pc[t] = "idle"
    /\ heartbeat_running' = FALSE
    /\ Return(t, "stop_heartbeat", Null, "stopped")
    /\ Quiet
    /\ NotWritten
    /\ UNCHANGED <<codecVars, winVars, flagVars, respVars, cbVars, hbThread,
                   connVars, ref, myConn, stale, idleTicks, terminated>>

StopHeartbeat(t) ==
    /\ ~terminated
    /\ pc[t] = "idle"
    /\ IF heartbeat_running /\ Joinable
       THEN /\ heartbeat_running' = FALSE
            /\ pc' = [pc EXCEPT ![t] = "join_stop"]
            /\ op' = [op EXCEPT ![t] = "stop_heartbeat"]
            /\ UNCHANGED <<ret, exit>>
       ELSE /\ heartbeat_running' = FALSE
            /\ Return(t, "stop_heartbeat", Null, "stopped")
    /\ Quiet
    /\ NotWritten
    /\ UNCHANGED <<codecVars, winVars, flagVars, respVars, cbVars, hbThread, connVars,
                   ref,
                   myConn, stale, idleTicks, terminated>>

\* heartbeat_thread_.join() returns once the loop has exited
JoinDone(t) ==
    /\ ~terminated
    /\ pc[t] \in {"join_start", "join_stop"}
    /\ hbThread = "exited"
    /\ IF pc[t] = "join_start"
       THEN /\ heartbeat_running' = TRUE
            /\ hbThread' = "check"
            /\ Return(t, "start_heartbeat", Null, "started")
       ELSE /\ hbThread' = "none"
            /\ Return(t, "stop_heartbeat", Null, "stopped")
            /\ UNCHANGED heartbeat_running
    /\ Quiet
    /\ NotWritten
    /\ UNCHANGED <<codecVars, winVars, flagVars, respVars, cbVars, connVars, ref, myConn,
                   stale,
                   idleTicks, terminated>>

\* heartbeat_loop: the while condition
HeartbeatLoopCheck ==
    /\ ~terminated
    /\ hbThread = "check"
    /\ hbThread' = IF heartbeat_running /\ connected THEN "sleep" ELSE "exited"
    /\ idleTicks' = 0
    /\ Quiet
    /\ NotWritten
    /\ UNCHANGED <<codecVars, winVars, flagVars, respVars, cbVars, heartbeat_running,
                   connVars,
                   callVars, terminated>>

\* heartbeat_loop after the sleep: the second check and send_message
HeartbeatWake ==
    /\ ~terminated
    /\ hbThread = "due"
    /\ IF ~heartbeat_running \/ ~connected
       THEN /\ hbThread' = "exited"
            /\ NotWritten
            /\ UNCHANGED idleTicks
       ELSE /\ hbThread' = "check"
            /\ SendMessage("heartbeat", HbRef)
            /\ idleTicks' = IF SendOk THEN 0 ELSE idleTicks
    /\ Quiet
    /\ UNCHANGED <<codecVars, winVars, flagVars, respVars, cbVars, heartbeat_running,
                   connVars,
                   callVars, terminated>>

\* one heartbeat interval elapses with no traffic; a sleeping heartbeat
\* loop wakes up
Tick ==
    /\ ~terminated
    /\ hbThread # "due"
    /\ hbThread = "sleep" \/ (Ready /\ idleTicks < MaxTicks)
    /\ hbThread' = IF hbThread = "sleep" THEN "due" ELSE hbThread
    /\ idleTicks' = IF Ready THEN Min(idleTicks + 1, MaxTicks) ELSE 0
    /\ Quiet
    /\ NotWritten
    /\ UNCHANGED <<codecVars, winVars, flagVars, respVars, cbVars, heartbeat_running,
                   connVars,
                   callVars, terminated>>

\* ------------------------------------------------------ WinHTTP client
\* retryCount of sendTextMessage and receiveMessage
RetryCount == 3

\* what WinHttpWebSocketReceive reports: timeouts on the first attempts, then
\* the result of the last attempt
RcvOutcomes ==
    {[timeouts |-> n, last |-> r] :
        n \in 0..(RetryCount - 1),
        r \in {"text", "binary", "fragment", "close", "error"}}
    \cup {[timeouts |-> RetryCount, last |-> "timeout"]}

\* the steps of connect() that can fail; the deeper_hub build also sets
\* WINHTTP_OPTION_UPGRADE_TO_WEB_SOCKET
FailPoints(b) ==
    {"session", "connect", "request", "send", "receive", "status", "upgrade"}
    \cup (IF b = "deeper_hub" THEN {"option"} ELSE {})

\* WebSocketClient::WebSocketClient()
WConstruct(b) ==
    /\ build = "none"
    /\ build' = b
    /\ m_connected' = FALSE
    /\ m_hSession' = 0
    /\ m_hConnection' = 0
    /\ m_hRequest' = 0
    /\ m_hWebSocket' = 0
    /\ wSent' = {}
    /\ wClosed' = {}
    /\ wAttempts' = 0
    /\ wSendAttempts' = 0
    /\ m_authenticated' = FALSE
    /\ authConn' = 0
    /\ wRet' = [op |-> "construct", val |-> TRUE]
    /\ UNCHANGED <<live, nextH, attempt, closedTwice, wsVars, codecVars>>

\* variant: the handles are not closed
CloseHandles_Leaks(lv, hs) ==
    /\ live' = lv
    /\ closedTwice' = closedTwice
    /\ wClosed' = {}

\* WinHttpCloseHandle on each handle of hs, lv being the handles open
CloseHandles(lv, hs) ==
    /\ live' = lv \ hs
    /\ closedTwice' = (closedTwice \/ hs \ lv # {})
    /\ wClosed' = hs

\* attempts receiveMessage makes for an outcome
RcvAttempts(o) == IF o.timeouts = RetryCount THEN RetryCount ELSE o.timeouts + 1

\* receiveMessage(message): the value it returns and the m_connected it leaves
RcvReturns(o) == o.last \in {"text", "binary", "fragment"}
RcvConnected(c, o) == IF c /\ o.last = "close" THEN FALSE ELSE c

\* the outcome named when no receive attempt is made
NoRcv == [timeouts |-> RetryCount, last |-> "timeout"]

\* handles connect() opens before it fails at step failAt (or succeeds),
\* n handles having been handed out before
Opened(failAt, n) ==
    IF failAt = "session" THEN {}
    ELSE IF failAt = "connect" THEN {n + 1}
    ELSE IF failAt = "request" THEN {n + 1, n + 2}
    ELSE IF failAt = "none" THEN {n + 1, n + 2, n + 3, n + 4}
    ELSE {n + 1, n + 2, n + 3}

\* connect() reaches WinHttpWebSocketCompleteUpgrade and it returns NULL: the
\* deeper_client build goes on after a status other than 101, and the upgrade
\* of a request the server did not switch fails
UpgradeFails(failAt) ==
    failAt = "upgrade" \/ (failAt = "status" /\ build = "deeper_client")

\* connect(host, port): the handshake, failing at step failAt or not at all,
\* followed by the test message (sendOk: WinHttpWebSocketSend succeeds) and
\* the receiveMessage call for its answer (outcome o)
WConnect(failAt, sendOk, o) ==
    /\ build # "none"
    /\ nextH + 4 <= MaxHandles
    /\ failAt \in FailPoints(build) \cup {"none"}
    /\ o \in RcvOutcomes
    /\ (failAt # "none" \/ ~sendOk) => o = NoRcv
    /\ failAt # "none" => ~sendOk
    /\ nextH' = nextH + Cardinality(Opened(failAt, nextH))
    /\ attempt' = Opened(failAt, nextH)
    /\ CloseHandles(live \cup Opened(failAt, nextH),
                    IF failAt = "none" THEN {nextH + 3}
                    ELSE Opened(failAt, nextH))
    /\ m_hSession' = IF failAt = "none" THEN nextH + 1 ELSE 0
    /\ m_hConnection' = IF failAt = "none" THEN nextH + 2
                        ELSE IF failAt = "session" THEN m_hConnection ELSE 0
    /\ m_hRequest' = IF failAt \in {"session", "connect"} THEN m_hRequest
                     ELSE 0
    /\ m_hWebSocket' = IF failAt = "none" THEN nextH + 4
                       ELSE IF UpgradeFails(failAt) THEN 0 ELSE m_hWebSocket
    /\ IF failAt = "none"
       THEN /\ m_connected' = IF sendOk THEN RcvConnected(TRUE, o) ELSE TRUE
            /\ wSent' = IF sendOk THEN {"test"} ELSE {}
            /\ wAttempts' = IF sendOk THEN RcvAttempts(o) ELSE 0
            /\ wSendAttempts' = 1
       ELSE /\ UNCHANGED m_connected
            /\ wSent' = {}
            /\ wAttempts' = 0
            /\ wSendAttempts' = 0
    /\ wRet' = [op |-> "connect", val |-> failAt = "none"]
    /\ UNCHANGED <<build, adVars, wsVars, codecVars>>

\* receiveMessage(message) called by the application
WReceive(o) ==
    /\ build # "none"
    /\ o \in RcvOutcomes
    \* a receive on a handle that is not open fails at once
    /\ (m_connected /\ m_hWebSocket \notin live)
          => (o.timeouts = 0 /\ o.last = "error")
    /\ ~m_connected => o = NoRcv
    /\ m_connected' = RcvConnected(m_connected, o)
    /\ wAttempts' = IF m_connected THEN RcvAttempts(o) ELSE 0
    /\ wSendAttempts' = 0
    /\ wRet' = [op |-> "receive", val |-> m_connected /\ RcvReturns(o)]
    /\ wSent' = {}
    /\ wClosed' = {}
    /\ UNCHANGED <<build, adVars, m_hSession, m_hConnection, m_hRequest,
                   m_hWebSocket,
                   live, nextH, attempt, closedTwice, wsVars, codecVars>>

\* variant: close() leaves the handle fields as they are
CloseEffect_KeepsHandles ==
    /\ m_connected' = IF m_hWebSocket # 0 THEN FALSE ELSE m_connected
    /\ wSent' = IF m_connected /\ m_hWebSocket # 0 THEN {"close"} ELSE {}
    /\ CloseHandles(live, {m_hWebSocket, m_hRequest, m_hConnection,
                           m_hSession} \ {0})
    /\ UNCHANGED <<m_hWebSocket, m_hRequest, m_hConnection, m_hSession>>

\* body of close()
CloseEffect ==
    /\ m_connected' = IF m_hWebSocket # 0 THEN FALSE ELSE m_connected
    /\ wSent' = IF m_connected /\ m_hWebSocket # 0 THEN {"close"} ELSE {}
    /\ CloseHandles(live, {m_hWebSocket, m_hRequest, m_hConnection,
                           m_hSession} \ {0})
    /\ m_hWebSocket' = 0
    /\ m_hRequest' = 0
    /\ m_hConnection' = 0
    /\ m_hSession' = 0

\* close() called by the application
WClose ==
    /\ build # "none"
    /\ CloseEffect
    /\ wAttempts' = 0
    /\ wSendAttempts' = 0
    /\ wRet' = [op |-> "close", val |-> TRUE]
    /\ UNCHANGED <<build, adVars, nextH, attempt, wsVars, codecVars>>

\* CppClientAdapter::disconnect()
AdapterDisconnect ==
    /\ build # "none"
    /\ IF m_connected
       THEN CloseEffect
       ELSE /\ wSent' = {}
            /\ wClosed' = {}
            /\ UNCHANGED <<m_connected, m_hSession, m_hConnection, m_hRequest,
                           m_hWebSocket, live, closedTwice>>
    /\ wAttempts' = 0
    /\ wSendAttempts' = 0
    /\ wRet' = [op |-> "disconnect", val |-> TRUE]
    /\ UNCHANGED <<build, adVars, nextH, attempt, wsVars, codecVars>>

\* what WinHttpWebSocketSend reports in sendTextMessage: timeouts on the
\* first attempts, then the result of the last attempt
SndOutcomes ==
    {[timeouts |-> n, last |-> r] :
        n \in 0..(RetryCount - 1), r \in {"ok", "error"}}
    \cup {[timeouts |-> RetryCount, last |-> "timeout"]}

\* the outcome named when no send attempt is made
NoSnd == [timeouts |-> RetryCount, last |-> "timeout"]

\* variant: an error is retried like a timeout
SndAttempts_RetryOnError(o) ==
    IF o.last = "ok" THEN o.timeouts + 1 ELSE RetryCount

\* attempts sendTextMessage makes for an outcome, and the value it returns
SndAttempts(o) == IF o.timeouts = RetryCount THEN RetryCount ELSE o.timeouts + 1
SndReturns(o) == o.last = "ok"

\* a send on a handle that is not open fails at once
SndPossible(o) ==
    /\ o \in SndOutcomes
    /\ m_hWebSocket \notin live => (o.timeouts = 0 /\ o.last = "error")

\* sendTextMessage(jsonMessage) called by the application
WSendText(o) ==
    /\ build # "none"
    /\ IF m_connected THEN SndPossible(o) ELSE o = NoSnd
    /\ wSent' = IF m_connected /\ SndReturns(o) THEN {"text"} ELSE {}
    /\ wSendAttempts' = IF m_connected THEN SndAttempts(o) ELSE 0
    /\ wAttempts' = 0
    /\ wClosed' = {}
    /\ wRet' = [op |-> "send", val |-> m_connected /\ SndReturns(o)]
    /\ UNCHANGED <<build, adVars, m_connected, m_hSession, m_hConnection,
                   m_hRequest, m_hWebSocket, live, nextH, attempt,
                   closedTwice, wsVars, codecVars>>

\* sendBinaryMessage(data) called by the application: one send, no retry
WSendBinary(ok) ==
    /\ build # "none"
    /\ (~m_connected \/ m_hWebSocket \notin live) => ~ok
    /\ wSent' = IF m_connected /\ ok THEN {"binary"} ELSE {}
    /\ wSendAttempts' = IF m_connected THEN 1 ELSE 0
    /\ wAttempts' = 0
    /\ wClosed' = {}
    /\ wRet' = [op |-> "sendBinary", val |-> m_connected /\ ok]
    /\ UNCHANGED <<build, adVars, m_connected, m_hSession, m_hConnection,
                   m_hRequest, m_hWebSocket, live, nextH, attempt,
                   closedTwice, wsVars, codecVars>>

\* ----------------------------------------------------- CppClientAdapter
\* operations guarded by ensureConnected and by ensureAuthenticated
ConnectedOps == {"echo", "user"}
AuthenticatedOps == {"channel", "message"}

\* an adapter operation past its guard: sendTextMessage(kind), then, if that
\* succeeded, receiveMessage
Exchange(kind, so, ro) ==
    /\ SndPossible(so)
    /\ ro \in RcvOutcomes
    /\ ~SndReturns(so) => ro = NoRcv
    /\ wSent' = IF SndReturns(so) THEN {kind} ELSE {}
    /\ wSendAttempts' = SndAttempts(so)
    /\ wAttempts' = IF SndReturns(so) THEN RcvAttempts(ro) ELSE 0
    /\ m_connected' = IF SndReturns(so) THEN RcvConnected(m_connected, ro)
                      ELSE m_connected

\* an adapter operation stopped by its guard
Rejected ==
    /\ wSent' = {}
    /\ wSendAttempts' = 0
    /\ wAttempts' = 0
    /\ UNCHANGED m_connected

\* the exchange brought back a message that parses and has the expected
\* type (good)
Answered(so, ro, good) == SndReturns(so) /\ RcvReturns(ro) /\ good

\* CppClientAdapter::authenticate(userId)
AdapterAuthenticate(so, ro, good) ==
    /\ build # "none"
    /\ good => (SndReturns(so) /\ RcvReturns(ro))
    /\ IF m_connected
       THEN /\ Exchange("auth", so, ro)
            /\ m_authenticated' = (m_authenticated \/ Answered(so, ro, good))
            /\ authConn' = IF Answered(so, ro, good) THEN m_hWebSocket
                           ELSE authConn
            /\ wRet' = [op |-> "authenticate",
                        val |-> Answered(so, ro, good)]
       ELSE /\ so = NoSnd /\ ro = NoRcv /\ ~good
            /\ Rejected
            /\ UNCHANGED adVars
            /\ wRet' = [op |-> "authenticate", val |-> FALSE]
    /\ wClosed' = {}
    /\ UNCHANGED <<build, m_hSession, m_hConnection, m_hRequest, m_hWebSocket,
                   live, nextH, attempt, closedTwice, wsVars, codecVars>>

\* ensureConnected() / ensureAuthenticated() for an operation of kind
Ensured(kind) ==
    IF kind \in ConnectedOps THEN m_connected
    ELSE m_connected /\ m_authenticated

\* the test operations of CppClientAdapter (testEchoHandler, testUser...,
\* testChannel..., testMessage...)
AdapterOp(kind, so, ro, good) ==
    /\ build # "none"
    /\ kind \in ConnectedOps \cup AuthenticatedOps
    /\ good => (SndReturns(so) /\ RcvReturns(ro))
    /\ IF Ensured(kind)
       THEN /\ Exchange(kind, so, ro)
            /\ wRet' = [op |-> kind, val |-> Answered(so, ro, good)]
       ELSE /\ so = NoSnd /\ ro = NoRcv /\ ~good
            /\ Rejected
            /\ wRet' = [op |-> kind, val |-> FALSE]
    /\ wClosed' = {}
    /\ UNCHANGED <<build, adVars, m_hSession, m_hConnection, m_hRequest,
                   m_hWebSocket, live, nextH, attempt, closedTwice, wsVars, codecVars>>

\* ------------------------------------------- DatabaseOperations codec
\* JSON values: null, strings (sequences of characters), objects (functions
\* from keys to values) and arrays (sequences of values)
JNull == [t |-> "null"]
JStr(s) == [t |-> "str", s |-> s]
JObj(f) == [t |-> "obj", f |-> f]
JArr(a) == [t |-> "arr", a |-> a]

\* what json::parse reports for a text that is no JSON document
ParseError == [t |-> "error"]

\* json::empty(): null and containers without elements
Empty(v) ==
    CASE v.t = "null" -> TRUE
      [] v.t = "obj" -> DOMAIN v.f = {}
      [] v.t = "arr" -> v.a = <<>>
      [] OTHER -> FALSE

\* the keys in use, in the order std::map keeps them
KeyOrder == <<"conditions", "data", "database_operation", "id", "name",
              "operation", "schema">>
Keys(f) == SelectSeq(KeyOrder, LAMBDA k : k \in DOMAIN f)

\* the characters of a string as dump() writes them between the quotes
RECURSIVE Escape(_)
Escape(s) ==
    IF s = <<>> THEN <<>>
    ELSE (IF Head(s) \in {"\"", "\\"} THEN <<"\\", Head(s)>> ELSE <<Head(s)>>)
         \o Escape(Tail(s))

\* json::dump(): the text of a value, as a sequence of characters and tokens
RECURSIVE Dump(_)
RECURSIVE DumpItems(_)
RECURSIVE DumpFields(_, _)
Dump(v) ==
    CASE v.t = "null" -> <<"null">>
      [] v.t = "str" -> <<"\"">> \o Escape(v.s) \o <<"\"">>
      [] v.t = "arr" -> <<"[">> \o DumpItems(v.a) \o <<"]">>
      [] v.t = "obj" -> <<"{">> \o DumpFields(v.f, Keys(v.f)) \o <<"}">>

DumpItems(a) ==
    IF a = <<>> THEN <<>>
    ELSE Dump(Head(a))
         \o (IF Tail(a) = <<>> THEN <<>> ELSE <<",">> \o DumpItems(Tail(a)))

DumpFields(f, ks) ==
    IF ks = <<>> THEN <<>>
    ELSE <<"\"", Head(ks), "\"", ":">> \o Dump(f[Head(ks)])
         \o (IF Tail(ks) = <<>> THEN <<>>
             ELSE <<",">> \o DumpFields(f, Tail(ks)))

\* documents a caller passes as data or conditions, and a server as data
UserA == JObj("name" :> JStr(<<"a">>))
UserU == JObj(("id" :> JStr(<<"u">>)) @@ ("name" :> JStr(<<"a", "\"", "b">>)))
Docs == {JNull, JObj(<<>>), UserA, UserU, JArr(<<>>), JArr(<<UserU, UserA>>)}

\* ids a caller passes
Ids == {"", "u7"}

\* variant: data and conditions are put into the object as nested structures
DatabaseOperation_Nested(operation, data, id, conditions) ==
    JObj(("operation" :> JStr(<<operation>>))
         @@ ("schema" :> JStr(<<"user">>))
         @@ (IF ~Empty(data) THEN "data" :> data ELSE <<>>)
         @@ (IF id # "" THEN "id" :> JStr(<<id>>) ELSE <<>>)
         @@ (IF ~Empty(conditions) THEN "conditions" :> conditions ELSE <<>>))

\* send_database_operation: the database_operation object (request_id and
\* timestamp, which are always present, are left out)
DatabaseOperation(operation, data, id, conditions) ==
    JObj(("operation" :> JStr(<<operation>>))
         @@ ("schema" :> JStr(<<"user">>))
         @@ (IF ~Empty(data) THEN "data" :> JStr(Dump(data)) ELSE <<>>)
         @@ (IF id # "" THEN "id" :> JStr(<<id>>) ELSE <<>>)
         @@ (IF ~Empty(conditions)
             THEN "conditions" :> JStr(Dump(conditions)) ELSE <<>>))

\* send_database_operation: the payload object and the message (topic and
\* ref are left out)
Payload(operation, data, id, conditions) ==
    JObj("database_operation"
            :> DatabaseOperation(operation, data, id, conditions))

Message(operation, data, id, conditions) ==
    [event |-> "message",
     payload |-> JStr(Dump(Payload(operation, data, id, conditions)))]

\* the operations whose messages are built
SentOperations == {"create", "find"}

\* the JSON values whose text json::parse is given here
Universe ==
    Docs \cup {Payload(o, d, i, c) :
                 o \in SentOperations, d \in Docs, i \in Ids, c \in Docs}

TextOf == [v \in Universe |-> Dump(v)]

\* json::parse(): the value a text is the text of
Parse(s) ==
    IF \E v \in Universe : TextOf[v] = s
    THEN CHOOSE v \in Universe : TextOf[v] = s
    ELSE ParseError

\* the operations that read the data field of a response
ReadKinds == {"create", "read", "find"}

\* the data field was not used
Ignored == [t |-> "ignored"]

\* user_id = data["id"]: the conversion to std::string throws for a value
\* that is no string and the handler leaves user_id empty
IdOf(v) == IF v.t = "str" THEN v ELSE Ignored

\* what create_user, get_user and find_users make of response["data"]
ReadData(kind, data) ==
    IF kind = "create"
    THEN IF data.t = "obj" /\ "id" \in DOMAIN data.f THEN IdOf(data.f["id"])
         ELSE IF data.t = "str"
         THEN LET o == Parse(data.s)
              IN  IF o.t = "obj" /\ "id" \in DOMAIN o.f THEN IdOf(o.f["id"])
                  ELSE Ignored
         ELSE Ignored
    ELSE IF kind = "read"
    THEN IF data.t = "obj" THEN data
         ELSE IF data.t = "str"
         THEN LET o == Parse(data.s)
              IN  IF o = ParseError THEN Ignored ELSE o
         ELSE Ignored
    ELSE IF data.t = "arr" THEN data
         ELSE IF data.t = "str"
         THEN LET o == Parse(data.s)
              IN  IF o.t = "arr" THEN o ELSE Ignored
         ELSE Ignored

\* send_database_operation(operation, "user", data, id, conditions) builds
\* its message
BuildOperation(operation, data, id, conditions) ==
    /\ dbCall' = [made |-> TRUE, operation |-> operation, data |-> data,
                  id |-> id, conditions |-> conditions,
                  message |-> Message(operation, data, id, conditions)]
    /\ UNCHANGED <<wsVars, winVars, dbRead>>

\* an operation reads the data field of a successful response; the server
\* sent the document doc, nested or string-encoded
ReadReply(kind, doc) ==
    /\ dbRead' = [made |-> TRUE, kind |-> kind, doc |-> doc,
                  nested |-> ReadData(kind, doc),
                  encoded |-> ReadData(kind, JStr(Dump(doc)))]
    /\ UNCHANGED <<wsVars, winVars, dbCall>>

\* ------------------------------------------------------ specifications
\* steps of the threads that are inside connect()
ConnectSteps ==
    \/ \E t \in Threads : RunReturns(t)
    \/ \E t \in Threads : ConnectPoll(t)

\* the websocketpp handlers
Handlers ==
    \/ \E c \in ConnIds : OnOpen(c)
    \/ \E c \in ConnIds : OnClose(c)
    \/ \E c \in ConnIds : OnFail(c)
    \/ \E c \in ConnIds : \E f \in ServerFrames(c) : OnMessage(c, f)

\* steps of the threads that are inside wait_for_response
WaitSteps ==
    \/ \E t \in Threads : WaitStart(t)
    \/ \E t \in Threads : WaitReturn(t)
    \/ \E t \in Threads : WaitTimeout(t)

\* m connects; a and b issue database operations, a disconnects, b registers
\* the callbacks
Next ==
    \/ ConnectCall("m")
    \/ ConnectSteps
    \/ Disconnect("a")
    \/ Handlers
    \/ \E t \in {"a", "b"} : \E r \in Refs : DbSend(t, r)
    \/ WaitSteps
    \/ \E cb \in MsgCallbacks : SetMessageCallback("b", cb)
    \/ SetConnectionCallback("b")

Spec == Init /\ [][Next]_vars

\* m and a both call connect(), b disconnects and registers the connection
\* callback
NextConn ==
    \/ \E t \in {"m", "a"} : ConnectCall(t)
    \/ ConnectSteps
    \/ Disconnect("b")
    \/ Handlers
    \/ SetConnectionCallback("b")

SpecConn == Init /\ [][NextConn]_vars

\* what the program and the library guarantee to happen: a thread that can
\* leave run() or a polling loop does so, a connection attempt is decided
\* (open or fail) and a close handshake the client started completes.  The
\* server is free to stay silent and to keep a connection open.
ConnFairness ==
    /\ \A t \in Threads : WF_vars(RunReturns(t)) /\ WF_vars(ConnectPoll(t))
    /\ \A c \in ConnIds : WF_vars(OnOpen(c) \/ OnFail(c))
    /\ \A c \in ConnIds : WF_vars(conn[c] = "closing" /\ OnClose(c))

\* only m calls connect(): one thread inside run(); b disconnects and
\* registers the connection callback
NextSolo ==
    \/ ConnectCall("m")
    \/ ConnectSteps
    \/ Disconnect("b")
    \/ Handlers
    \/ SetConnectionCallback("b")

SpecSoloFair == Init /\ [][NextSolo]_vars /\ ConnFairness

\* m connects, a issues database operations and disconnects, b starts and
\* stops the heartbeat, the heartbeat thread runs heartbeat_loop
NextHb ==
    \/ ConnectCall("m")
    \/ ConnectSteps
    \/ Disconnect("a")
    \/ Handlers
    \/ \E r \in Refs : DbSend("a", r)
    \/ WaitSteps
    \/ StartHeartbeat("b")
    \/ StopHeartbeat("b")
    \/ JoinDone("b")
    \/ HeartbeatLoopCheck
    \/ HeartbeatWake
    \/ Tick

SpecHb == Init /\ [][NextHb]_vars

\* the heartbeat thread is scheduled, its sleep ends, and join() returns
\* once the thread has exited
HbFairness ==
    /\ WF_vars(HeartbeatLoopCheck)
    /\ WF_vars(HeartbeatWake)
    /\ WF_vars(hbThread = "sleep" /\ Tick)
    /\ WF_vars(JoinDone("b"))

SpecHbFair == SpecHb /\ HbFairness

\* an application that uses the WinHTTP client through its own operations
\* and through CppClientAdapter
NextWin ==
    \/ \E b \in Builds : WConstruct(b)
    \/ \E f \in FailPoints(build) \cup {"none"} : \E ok \in BOOLEAN :
          \E o \in RcvOutcomes : WConnect(f, ok, o)
    \/ \E o \in RcvOutcomes : WReceive(o)
    \/ WClose
    \/ AdapterDisconnect
    \/ \E o \in SndOutcomes : WSendText(o)
    \/ \E ok \in BOOLEAN : WSendBinary(ok)

SpecWin == Init /\ [][NextWin]_vars

\* the messages DatabaseOperations builds and the data fields it reads
NextCodec ==
    \/ \E o \in SentOperations : \E d \in Docs : \E i \in Ids : \E c \in Docs :
          BuildOperation(o, d, i, c)
    \/ \E kind \in ReadKinds : \E doc \in Docs : ReadReply(kind, doc)

SpecCodec == Init /\ [][NextCodec]_vars

\* an application that uses the WinHTTP client through CppClientAdapter only
NextAdapter ==
    \/ \E b \in Builds : WConstruct(b)
    \/ \E f \in FailPoints(build) \cup {"none"} : \E ok \in BOOLEAN :
          \E o \in RcvOutcomes : WConnect(f, ok, o)
    \/ AdapterDisconnect
    \/ \E so \in SndOutcomes : \E ro \in RcvOutcomes : \E good \in BOOLEAN :
          AdapterAuthenticate(so, ro, good)
    \/ \E kind \in ConnectedOps \cup AuthenticatedOps :
          \E so \in SndOutcomes : \E ro \in RcvOutcomes : \E good \in BOOLEAN :
             AdapterOp(kind, so, ro, good)

SpecAdapter == Init /\ [][NextAdapter]_vars

\* the websocketpp client (m connects, b disconnects) and the WinHTTP
\* client, each driven through its connect and disconnect operations
NextClients ==
    \/ ConnectCall("m")
    \/ ConnectSteps
    \/ Disconnect("b")
    \/ \E c \in ConnIds : OnOpen(c)
    \/ \E c \in ConnIds : OnClose(c)
    \/ \E c \in ConnIds : OnFail(c)
    \/ \E b \in Builds : WConstruct(b)
    \/ \E f \in FailPoints(build) \cup {"none"} : \E ok \in BOOLEAN :
          \E o \in RcvOutcomes : WConnect(f, ok, o)
    \/ \E o \in RcvOutcomes : WReceive(o)
    \/ WClose
    \/ AdapterDisconnect

SpecClients == Init /\ [][NextClients]_vars

\* a runs main(): connect(), then the construction of DatabaseOperations; m is
\* a thread that is inside connect() already, b disconnects
NextMain ==
    \/ \E t \in {"m", "a"} : ConnectCall(t)
    \/ ConnectSteps
    \/ Disconnect("b")
    \/ Handlers
    \/ DbConstruct("a")

SpecMain == Init /\ [][NextMain]_vars

\* a issues database operations while m and b connect and b disconnects
NextWait ==
    \/ \E t \in {"m", "b"} : ConnectCall(t)
    \/ ConnectSteps
    \/ Disconnect("b")
    \/ Handlers
    \/ \E r \in Refs : DbSend("a", r)
    \/ WaitSteps

\* a caller that entered wait_for_response takes the lock, and wait_for
\* ends: with the predicate true, or when timeout_ms has elapsed
WaitFairness ==
    \A t \in Threads :
        WF_vars(WaitStart(t)) /\ WF_vars(WaitReturn(t) \/ WaitTimeout(t))

SpecWaitFair == Init /\ [][NextWait]_vars /\ WaitFairness

TypeOK ==
    /\ connected \in BOOLEAN /\ authenticated \in BOOLEAN
    /\ response_received \in BOOLEAN
    /\ nconn \in 0..MaxConns
    /\ idleTicks \in 0..MaxTicks
    /\ hbThread \in {"none", "check", "sleep", "due", "exited"}

\* --------------------------------------------------------------- claims
\* a database operation of t has returned a reply
GotReply(t) == pc[t] = "idle" /\ op[t] = "db" /\ exit[t] = "reply"

\* the server's answer to the join on the connection t's connect() created
JoinAckOf(t) == IF myConn[t] = 0 THEN "none" ELSE joinAck[myConn[t]]

\* the join envelope was written on the connection t's connect() created
JoinSentOf(t) == myConn[t] # 0 /\ joinSent[myConn[t]] > 0

\* the step is the return of the connect() call of t that created a connection
ConnectReturns(t) ==
    /\ pc[t] \in {"waitConn", "waitAuth"}
    /\ pc'[t] = "idle"

\* C1: a reply is delivered to the wait_for_response call of the caller whose
\* request carried the same ref, whatever the arrival order: the reply a
\* database operation returns answers the ref that operation sent.
C1_ReplyRoutedByRef ==
    \A t \in Threads : GotReply(t) => ret[t].of = ref[t]

\* C2: when the transport opened and the server answered the join with
\* status "ok", the connect() call that opened the connection returns true
\* and the client is Ready (connected and authenticated) when it returns.
C2_JoinOkConnectSucceeds ==
    [][\A t \in Threads :
         (ConnectReturns(t) /\ JoinAckOf(t) = "ok")
            => (ret'[t] = RetTrue /\ connected' /\ authenticated')]_vars

\* C3: when the server answers the join with a failure status, or sends no
\* join reply, the connect() call that opened the connection returns false and
\* the client is then Disconnected (unless an "ok" answer arrives after all).
C3_JoinRejectedConnectFails ==
    \A t \in Threads :
        (pc[t] = "run" /\ JoinSentOf(t) /\ JoinAckOf(t) # "ok")
        ~> (\/ JoinAckOf(t) = "ok"
            \/ (pc[t] = "idle" /\ ret[t] = RetFalse
                  /\ ~connected /\ ~authenticated))

\* C4: a request whose wait timed out before any reply arrived returned the
\* timeout result, and the reply to it that arrives later is discarded: the
\* wait_for_response call of the caller's next request never returns it.
C4_LateReplyDiscarded ==
    \A t \in Threads :
        (GotReply(t) /\ stale[t] # ""
            /\ \A u \in Threads \ {t} : ref[u] # stale[t])
        => ret[t].of # stale[t]

\* C5: when a connection closes, every caller blocked in wait_for_response is
\* resolved with a connection-lost result by the handling of the closure.
C5_CloseFailsPendingWaits ==
    [][\A c \in ConnIds :
         (conn[c] \in {"open", "closing"} /\ conn'[c] = "closed")
            => \A t \in Threads :
                  pc[t] = "waiting"
                     => (pc'[t] = "idle" /\ exit'[t] = "connection_lost")]_vars

\* C6: for each loss of an established connection the registered connection
\* callback is invoked with false exactly once: by the step that terminates
\* the connection, and by no other step.
C6_LossNotifiedOnce ==
    [][\A c \in ConnIds :
         IF conn[c] \in {"open", "closing"} /\ conn'[c] = "closed"
         THEN connection_callback
                 => (cbFalse'[c] = 1 /\ cbEvent' = {"conn_false"})
         ELSE conn[c] # "connecting" => cbFalse'[c] = cbFalse[c]]_vars

C6_Witness ==
    \E c \in ConnIds : conn[c] = "closed" /\ cbFalse[c] = 1
                          /\ cbEvent = {"conn_false"}

\* C7: no envelope other than the join is written to the transport unless the
\* client is Ready, and a database operation called while not Ready fails at
\* once: it writes nothing and does not wait.
C7_SendOnlyWhenReady ==
    [][/\ (wrote' # NoEnv /\ wrote'.event # "phx_join") => Ready
       /\ \A t \in Threads :
            (pc[t] = "idle" /\ op'[t] = "db" /\ exit'[t] # exit[t] /\ ~Ready)
               => (wrote' = NoEnv /\ pc'[t] = "idle"
                     /\ exit'[t] = "send_failed")]_vars

C7_Witness ==
    /\ ~Ready
    /\ connected
    /\ exit["a"] = "send_failed"
    /\ wrote = NoEnv

\* C8: every pending request is fulfilled exactly once: one inbound reply is
\* returned by at most one wait_for_response call.
C8_ReplyReturnedOnce == takers <= 1

\* C9: an undecodable inbound frame is discarded: its dispatch changes neither
\* the connection state nor the pending-response state, wakes no waiter and
\* invokes no callback, and frames can still be dispatched afterwards.
C9_MalformedFrameDiscarded ==
    [][\A c \in ConnIds : \A k \in {"malformed", "badevent"} :
         OnMessage(c, Frame(k, "", ""))
            => /\ UNCHANGED <<connected, authenticated, response_received,
                              last_response, takers, pc, ret, exit>>
               /\ cbEvent' = {}
               /\ notified' = FALSE
               /\ conn'[c] = "open"
               /\ Frame(k, "", "") \in ServerFrames(c)']_vars

C9_Witness ==
    /\ \E c \in ConnIds : conn[c] = "open"
    /\ CanDispatch
    /\ message_callback # ""
    /\ \E t \in Threads : pc[t] = "waiting"
    /\ cbEvent = {}
    /\ ~notified

\* C10: while the client is Ready and there is no other traffic, one heartbeat
\* envelope is sent per interval, and none is sent while it is not Ready: a
\* heartbeat is written only in Ready, and when an interval has elapsed in
\* Ready the heartbeat loop is about to send.
C10_HeartbeatEveryInterval ==
    [][/\ (wrote' # NoEnv /\ wrote'.event = "heartbeat") => Ready
       /\ (connected' /\ authenticated' /\ idleTicks' >= 1)
             => hbThread' = "due"]_vars

\* frames by which the server answers a heartbeat: an inbound heartbeat event
\* or a phx_reply that echoes the ref of a heartbeat envelope
HeartbeatAnswers ==
    {Frame("heartbeat", "", "")} \cup {Frame("phx_reply", HbRef, sh) : sh \in Shapes}

\* C11: receiving the server's reply to a heartbeat (a heartbeat event, or a
\* phx_reply echoing a heartbeat's ref, whatever its payload) has no effect on
\* pending requests: while a caller is blocked in wait_for_response its
\* dispatch leaves the response slot alone and notifies no waiter.
C11_HeartbeatReplyNoEffect ==
    [][\A c \in ConnIds : \A f \in HeartbeatAnswers :
         (OnMessage(c, f) /\ \E t \in Threads : pc[t] = "waiting")
            => /\ UNCHANGED <<response_received, last_response, pc, ret>>
               /\ notified' = FALSE]_vars

\* C12: disconnect() of the websocketpp client, close() of the WinHTTP client
\* and CppClientAdapter::disconnect() called on a client that is already
\* Disconnected send nothing, close no handle that is already closed, invoke
\* no callback and leave the client Disconnected.
C12_DisconnectIdempotent ==
    [][/\ \A t \in Threads :
            (Disconnect(t) /\ ~connected)
               => /\ UNCHANGED <<connected, authenticated, conn>>
                  /\ wrote' = NoEnv
                  /\ cbEvent' = {}
       /\ (WClose /\ ~m_connected)
             => /\ wSent' = {}
                /\ wClosed' \subseteq live
                /\ ~closedTwice'
                /\ ~m_connected'
       /\ (AdapterDisconnect /\ ~m_connected)
             => /\ wSent' = {}
                /\ wClosed' = {}
                /\ ~closedTwice'
                /\ ~m_connected']_vars

C12_Witness ==
    /\ op["b"] = "disconnect" /\ exit["b"] = "noop"
    /\ \E c \in ConnIds : conn[c] \in {"closing", "closed"}
    /\ wRet.op \in {"close", "disconnect"}
    /\ nextH > 0 /\ live = {} /\ wClosed = {}
    /\ ~m_connected /\ ~connected

\* the request t sent is outstanding: its wait_for_response has not returned
Outstanding(t) == pc[t] \in {"sent", "waiting"}

\* C13: every request envelope carries a ref that differs from the ref of
\* every other request outstanding at that moment and from the join ref "1".
C13_OutstandingRefsUnique ==
    \A t \in Threads :
        Outstanding(t)
           => /\ ref[t] # JoinRef
              /\ \A u \in Threads \ {t} : Outstanding(u) => ref[u] # ref[t]

\* frames the server pushes on its own: they decode, answer no request and
\* are no heartbeat
Pushed == {Frame("message", "", ""), Frame("other", "", "")}

\* C14: an inbound frame that decodes, matches no outstanding request and is
\* not a heartbeat is forwarded to the message callback, and only to the one
\* registered most recently.
C14_PushedFrameForwarded ==
    [][\A c \in ConnIds : \A f \in Pushed :
         (OnMessage(c, f) /\ message_callback # "")
            => cbEvent' = {message_callback}]_vars

\* C15: disconnect() called on a connected client sends a close frame, leaves
\* the client Disconnected and cleans up as a transport closure does: every
\* caller blocked in wait_for_response is resolved with connection-lost.
C15_DisconnectCleansUp ==
    [][\A t \in Threads :
         (Disconnect(t) /\ connected)
            => /\ conn'[nconn] = "closing"
               /\ ~connected' /\ ~authenticated'
               /\ \A u \in Threads :
                     pc[u] = "waiting"
                        => (pc'[u] = "idle"
                              /\ exit'[u] = "connection_lost")]_vars

\* every step connect() of the WinHTTP client can fail at, in either build
AllFailPoints == UNION {FailPoints(b) : b \in Builds}

C17_LossNeverTerminates ==
    [][\A t \in Threads :
         (DbConstruct(t) /\ nconn > 0 /\ joinAck[nconn] = "ok")
            => ~terminated']_vars

\* t is inside a connect() call
InConnect(t) == pc[t] \in {"run", "waitConn", "waitAuth"}

\* C18: while the client is Ready, inbound frames are dispatched by an
\* execution context independent of the callers: a frame dispatched while a
\* caller is blocked in wait_for_response is dispatched with every connect()
\* call having returned.
C18_DispatchIndependentOfCallers ==
    [][\A c \in ConnIds : \A f \in ServerFrames(c) :
         (OnMessage(c, f) /\ Ready /\ \E t \in Threads : pc[t] = "waiting")
            => \A u \in Threads : ~InConnect(u)]_vars

\* C19: connect() always eventually returns: when the transport opened and the
\* join was sent, connect() returns even if the server never answers the join
\* and never closes the connection.
C19_ConnectReturns ==
    \A t \in Threads :
        (InConnect(t) /\ JoinSentOf(t) /\ JoinAckOf(t) = "none")
        ~> (pc[t] = "idle" \/ JoinAckOf(t) # "none")

\* C20: no caller blocks forever: every wait_for_response call eventually
\* returns, whether a reply arrives or not and whether or not the connection
\* is lost or established again while the caller waits.
C20_WaitReturns ==
    \A t \in Threads : pc[t] \in {"sent", "waiting"} ~> pc[t] = "idle"

C20_Witness ==
    /\ pc["a"] = "idle" /\ op["a"] = "db" /\ exit["a"] = "timeout"
    /\ conn[1] = "closed" /\ conn[2] = "open"
    /\ pendingSrv[1] # {}

\* C21: a reply dispatched after send_message returned and before the caller
\* entered wait_for_response is not lost: when the caller enters the wait,
\* the reply to its request that is already stored stays stored.
C21_EarlyReplyKept ==
    [][\A t \in Threads :
         (WaitStart(t) /\ response_received /\ last_response.of = ref[t])
            => (response_received' /\ last_response' = last_response)]_vars

\* C22: the start or the timeout expiry of one caller's wait_for_response
\* leaves the connection state unchanged and does not change what another
\* caller's pending wait will return: the response stored for a caller that
\* is waiting stays stored.
C22_WaitsIndependent ==
    [][\A t \in Threads :
         (WaitStart(t) \/ WaitTimeout(t))
            => /\ UNCHANGED <<connected, authenticated>>
               /\ (\E u \in Threads \ {t} :
                      /\ pc[u] = "waiting" /\ ref[u] # ref[t]
                      /\ response_received /\ last_response.of = ref[u])
                     => UNCHANGED <<response_received, last_response>>]_vars

\* C23: no session state survives a disconnect: once the connection on which
\* authenticate() succeeded has been closed, ensureAuthenticated passes (the
\* client is connected and the adapter holds m_authenticated) only if
\* authenticate() has succeeded again on the connection that is open now
C23_AuthenticatedOnCurrentConnection ==
    (m_connected /\ m_authenticated /\ authConn \notin live)
        => authConn = m_hWebSocket

\* C24: in every reachable state of the websocketpp client is_authenticated()
\* implies is_connected().
C24_AuthenticatedImpliesConnected == authenticated => connected

\* C25: on every connection the first envelope the client sends is the join:
\* when the transport of connection c opens, the websocketpp client writes
\* phx_join with ref "1" on c, for the first time; the envelope a successful
\* connect() of the WinHTTP client sends is the join.
C25_JoinFirst ==
    [][/\ \A c \in ConnIds :
            OnOpen(c)
               => /\ wrote' = [event |-> "phx_join", ref |-> JoinRef,
                               conn |-> c]
                  /\ joinSent'[c] = 1
       /\ \A o \in RcvOutcomes :
            WConnect("none", TRUE, o) => wSent' = {"join"}]_vars

\* the answers a server can give to the join
JoinOk == Frame("phx_reply", JoinRef, "ok")
JoinReplies == {JoinOk, Frame("phx_reply", JoinRef, "error")}

\* C26: the client becomes authenticated only on receipt of a phx_reply with
\* ref "1" and payload status "ok" (no other step sets authenticated_), and a
\* phx_reply with ref "1" is never stored as the response of a waiting
\* caller nor signalled to one.
C26_AuthenticatedOnlyByJoinReply ==
    [][/\ (~authenticated /\ authenticated')
            => \E c \in ConnIds : OnMessage(c, JoinOk)
       /\ \A c \in ConnIds : \A f \in JoinReplies :
            OnMessage(c, f)
               => /\ UNCHANGED <<response_received, last_response>>
                  /\ ~notified']_vars

\* the join was acknowledged and the acknowledgement is in no response slot
C26_Witness ==
    /\ authenticated
    /\ \E c \in ConnIds : joinAck[c] = "ok"
    /\ ~response_received

\* C27: a reply that fulfills the request of a waiting caller is routed to
\* that caller only: the dispatch of it invokes no message callback.
C27_ReplyNotForwarded ==
    [][\A c \in ConnIds : \A f \in ServerFrames(c) :
         (/\ OnMessage(c, f)
          /\ Route(f) = "deliver"
          /\ \E t \in Threads : pc[t] = "waiting" /\ ref[t] = f.ref)
            => cbEvent' = {}]_vars

\* C28: no reply is lost: a reply stored for a caller that is still waiting
\* for it and has not taken it yet is not overwritten when a later reply,
\* to another request, is dispatched.
C28_EarlierReplyKept ==
    [][\A c \in ConnIds : \A f \in ServerFrames(c) :
         (/\ OnMessage(c, f)
          /\ Route(f) = "deliver"
          /\ f.ref # last_response.of
          /\ response_received /\ takers = 0
          /\ \E t \in Threads :
                pc[t] = "waiting" /\ ref[t] = last_response.of)
            => last_response' = last_response]_vars

\* C29: in the WinHTTP client, when sendTextMessage or receiveMessage is
\* called on a connected client and returns false because the transport
\* reported closure or failure (a close frame, an error, or timeouts on all
\* attempts), isConnected() is false afterwards.
C29_FailureDisconnects ==
    [][/\ \A o \in RcvOutcomes :
            (WReceive(o) /\ m_connected /\ ~RcvReturns(o)) => ~m_connected'
       /\ \A o \in SndOutcomes :
            (WSendText(o) /\ m_connected /\ ~SndReturns(o))
               => ~m_connected']_vars

\* C30: in the WinHTTP client and its adapter every operation other than the
\* authentication handshake sends nothing unless the client is connected and
\* authenticated: an adapter operation called in another state sends
\* nothing, and connect() on a client that is not authenticated sends
\* nothing of its own.
C30_OperationsNeedAuthentication ==
    [][/\ \A kind \in ConnectedOps \cup AuthenticatedOps :
          \A so \in SndOutcomes : \A ro \in RcvOutcomes : \A good \in BOOLEAN :
            (AdapterOp(kind, so, ro, good) /\ ~(m_connected /\ m_authenticated))
               => wSent' = {}
       /\ \A ok \in BOOLEAN : \A o \in RcvOutcomes :
            (WConnect("none", ok, o) /\ ~m_authenticated) => wSent' = {}]_vars

\* C31: a request's error surfaces as that request's own result: an
\* operation whose send_message failed or whose wait_for_response timed out
\* returns its failure value, and not a result read from any response.
C31_FailureIsOwnResult ==
    \A t \in Threads :
        (pc[t] = "idle" /\ op[t] = "db"
            /\ exit[t] \in {"send_failed", "timeout"})
           => \A kind \in DbKinds : Outcome(kind, ret[t]) = Failure(kind)

\* one caller's send failed while the reply to another request is stored,
\* and one caller's wait timed out after another caller got a reply
C31_Witness ==
    \/ \E t \in Threads :
          /\ pc[t] = "idle" /\ op[t] = "db" /\ exit[t] = "send_failed"
          /\ response_received /\ last_response # Null
    \/ \E t \in Threads : \E u \in Threads \ {t} :
          /\ pc[t] = "idle" /\ op[t] = "db" /\ exit[t] = "timeout"
          /\ GotReply(u)

\* the database_operation object the payload of the last message decodes to
SentOperation == Parse(dbCall.message.payload.s).f["database_operation"]

C33_ConnectTrueOnlyWhenReady ==
    [][\A t \in Threads :
         ((ConnectCall(t) \/ ConnectPoll(t))
             /\ pc'[t] = "idle" /\ ret'[t] = RetTrue)
            => (connected' /\ authenticated')]_vars

\* C34: sendTextMessage of the WinHTTP client returns in one call, makes at
\* most 3 send attempts, one more than the timeouts it met unless all 3
\* timed out (so an error ends it at once), and returns true iff an attempt
\* succeeded; when the client is not connected it returns false with no
\* attempt.
C34_SendRetries ==
    [][\A o \in SndOutcomes :
         WSendText(o)
            => /\ wRet'.op = "send"
               /\ wSendAttempts' <= 3
               /\ ~m_connected => (wSendAttempts' = 0 /\ ~wRet'.val)
               /\ m_connected
                     => /\ wRet'.val = (o.last = "ok")
                        /\ o.last \in {"ok", "error"}
                              => wSendAttempts' = o.timeouts + 1
                        /\ o.last = "timeout" => wSendAttempts' = 3]_vars

\* a send on a connected client failed at once on an error that followed
\* one timeout
C34_Witness ==
    /\ wRet = [op |-> "send", val |-> FALSE]
    /\ m_connected
    /\ wSendAttempts = 2

\* C35: receiveMessage of the WinHTTP client makes at most 3 receive
\* attempts, one more than the timeouts it met unless all 3 timed out; it
\* returns true only if an attempt brought a text or a binary frame; on a
\* close frame it returns false and leaves the client not connected; on a
\* client that is not connected sendTextMessage, sendBinaryMessage and
\* receiveMessage return false without a call to the transport.
C35_ReceiveRetries ==
    [][/\ \A o \in RcvOutcomes :
            (WReceive(o) /\ m_connected)
               => /\ wAttempts' <= 3
                  /\ o.last # "timeout" => wAttempts' = o.timeouts + 1
                  /\ wRet'.val => o.last \in {"text", "binary"}
                  /\ o.last = "close" => (~wRet'.val /\ ~m_connected')
       /\ ((\/ \E o \in RcvOutcomes : WReceive(o)
            \/ \E o \in SndOutcomes : WSendText(o)
            \/ \E ok \in BOOLEAN : WSendBinary(ok))
           /\ ~m_connected)
             => /\ ~wRet'.val
                /\ wAttempts' = 0 /\ wSendAttempts' = 0
                /\ wSent' = {}]_vars

\* C36: in every reachable state of the WinHTTP client isConnected()
\* implies that the WebSocket handle is not NULL, and when close() has
\* returned the client is not connected and the session, connection, request
\* and WebSocket handles are all NULL.
C36_ConnectedHasHandle ==
    /\ m_connected => m_hWebSocket # 0
    /\ wRet.op = "close"
          => /\ ~m_connected
             /\ m_hSession = 0 /\ m_hConnection = 0
             /\ m_hRequest = 0 /\ m_hWebSocket = 0

\* C37: for every sequence of connect() and close() calls on one WinHTTP
\* client no handle is closed twice and every handle that is open is held by
\* a field of the client, so that no earlier connection stays open out of
\* reach.
C37_HandlesOwned ==
    /\ ~closedTwice
    /\ live \subseteq {m_hSession, m_hConnection, m_hRequest, m_hWebSocket}

\* C38: for every sequence of start_heartbeat and stop_heartbeat calls and
\* connection events a heartbeat thread is never replaced without having
\* been joined (which would end the process, and is the only way to a second
\* loop), stop_heartbeat returns with no heartbeat loop running, and a
\* stop_heartbeat that waits for the loop eventually returns.
C38_HeartbeatLoopUnique ==
    /\ [](~terminated)
    /\ [][\A t \in Threads :
            ((StopHeartbeat(t) \/ JoinDone(t))
                /\ pc'[t] = "idle" /\ op'[t] = "stop_heartbeat")
               => hbThread' \in {"none", "exited"}]_vars
    /\ \A t \in Threads : (pc[t] = "join_stop") ~> (pc[t] = "idle")

\* stop_heartbeat has cleared the flag and waits in join() for a loop that
\* is asleep on an open connection
C38_Witness ==
    /\ pc["b"] = "join_stop"
    /\ hbThread = "sleep"
    /\ connected

====
